---------------------------- MODULE Spec2Model ----------------------------
(***************************************************************************)
(* A model of App.py, the GST invoice and annexure generator.              *)
(*                                                                         *)
(* Text is modelled as a sequence of atoms.  In the character-level        *)
(* functions (sanitize_filename, clean_currency) an atom is one character. *)
(* In number_to_words and in the address functions an atom is one space    *)
(* character " " or one unbreakable run of non-space characters (a word).  *)
(* Four characters that are not ASCII are written by their code point:     *)
(* "U+20B9" is the rupee sign; "U+00E2", "U+201A", "U+00B9" are the three  *)
(* characters of the literal that line 64 of App.py holds.                 *)
(*                                                                         *)
(* A float is modelled exactly: a parsed decimal is [m, k], the value      *)
(* m / 10^k in lowest form; amounts of the line-item loop are integers in  *)
(* units of 1 / AmountUnit rupee.  IEEE rounding error is abstracted.      *)
(***************************************************************************)
EXTENDS Integers, Sequences, FiniteSets, TLC

VARIABLES
    \* st.session_state (App.py 290-299)
    invoice_df, orders_df, invoice_ids, pdf_bytes, pdf_filename,
    \* widget values of the current script run (App.py 305, 316, 328, 341-345)
    invoice_file, orders_file, selected_invoice_id,
    bill_from_data, bill_to_data, auth_sig_name,
    \* what the last generate request showed, and whether a download is offered
    outcome, download,
    \* one call of a helper function: its name, argument and return value
    fn, arg, ret,
    \* the locals of one document build (App.py 367-505)
    sub_inv, orders, pc, total_amount, total_cgst, total_sgst, grand_total,
    total_qty, serial_number, vals, inv_orders, annexure, exc,
    \* the canvas of one document build (PDFInvoice / FPDF)
    lpc, y, pages, is_annexure_page, signature_font_available, bill_to_lines,
    words_lines, rows_drawn, annex_drawn, final_y_start, remarks

app_vars == <<invoice_df, orders_df, invoice_ids, pdf_bytes, pdf_filename,
              invoice_file, orders_file, selected_invoice_id,
              bill_from_data, bill_to_data, auth_sig_name, outcome, download>>
fn_vars == <<fn, arg, ret>>
build_vars == <<sub_inv, orders, pc, total_amount, total_cgst, total_sgst,
                grand_total, total_qty, serial_number, vals, inv_orders,
                annexure, exc>>
canvas_vars == <<lpc, y, pages, is_annexure_page, signature_font_available,
                 bill_to_lines, words_lines, rows_drawn, annex_drawn,
                 final_y_start, remarks>>
vars == <<app_vars, fn_vars, build_vars, canvas_vars>>

None == [k |-> "None"]

-----------------------------------------------------------------------------
(* Text helpers: Python's str methods on sequences of atoms.               *)

\* str.replace(old, new): leftmost, non-overlapping occurrences
RECURSIVE Replace(_, _, _)
Replace(s, old, new) ==
    IF Len(s) < Len(old) \/ Len(old) = 0 THEN s
    ELSE IF SubSeq(s, 1, Len(old)) = old
         THEN new \o Replace(SubSeq(s, Len(old) + 1, Len(s)), old, new)
         ELSE <<s[1]>> \o Replace(Tail(s), old, new)

RECURSIVE LStrip(_)
LStrip(s) == IF s # <<>> /\ s[1] = " " THEN LStrip(Tail(s)) ELSE s

RECURSIVE RStrip(_)
RStrip(s) ==
    IF s # <<>> /\ s[Len(s)] = " " THEN RStrip(SubSeq(s, 1, Len(s) - 1)) ELSE s

\* str.strip()
Strip(s) == RStrip(LStrip(s))

\* all sequences over S of length at most n
RECURSIVE SeqsUpTo(_, _)
SeqsUpTo(S, n) ==
    IF n = 0 THEN {<<>>}
    ELSE LET shorter == SeqsUpTo(S, n - 1)
         IN  shorter \cup {Append(s, a) : s \in shorter, a \in S}

RECURSIVE Pow10(_)
Pow10(n) == IF n = 0 THEN 1 ELSE 10 * Pow10(n - 1)

-----------------------------------------------------------------------------
(* sanitize_filename (App.py 46-50)                                        *)

InvalidChars == {"<", ">", ":", "\"", "|", "?", "*"}

\* re.sub(r'[<>:"|?*]', '_', filename)
ReSubInvalid(filename) ==
    [i \in 1..Len(filename) |->
        IF filename[i] \in InvalidChars THEN "_" ELSE filename[i]]

\* a mutant: the regular expression misses the colon
sanitize_filename_no_colon(filename) ==
    LET f == Replace(Replace(filename, <<"/">>, <<"_">>), <<"\\">>, <<"_">>)
    IN  [i \in 1..Len(f) |->
            IF f[i] \in (InvalidChars \ {":"}) THEN "_" ELSE f[i]]

sanitize_filename(filename) ==
    ReSubInvalid(Replace(Replace(filename, <<"/">>, <<"_">>), <<"\\">>, <<"_">>))

-----------------------------------------------------------------------------
(* float(str) and str(float), restricted to text made of decimal digits,   *)
(* ".", and characters float() rejects (no sign, exponent, underscore,     *)
(* "inf" or "nan" occurs in the inputs of this model).                     *)

Digits == {"0", "1", "2", "3", "4", "5", "6", "7", "8", "9"}

DigitVal(c) ==
    CASE c = "0" -> 0 [] c = "1" -> 1 [] c = "2" -> 2 [] c = "3" -> 3
      [] c = "4" -> 4 [] c = "5" -> 5 [] c = "6" -> 6 [] c = "7" -> 7
      [] c = "8" -> 8 [] c = "9" -> 9

DigitChar(d) == <<"0", "1", "2", "3", "4", "5", "6", "7", "8", "9">>[d + 1]

RECURSIVE IntOf(_)
IntOf(ds) ==
    IF ds = <<>> THEN 0
    ELSE 10 * IntOf(SubSeq(ds, 1, Len(ds) - 1)) + DigitVal(ds[Len(ds)])

\* the decimal m / 10^k in lowest form
RECURSIVE Canon(_, _)
Canon(m, k) ==
    IF k > 0 /\ m % 10 = 0 THEN Canon(m \div 10, k - 1) ELSE [m |-> m, k |-> k]

Zero == [m |-> 0, k |-> 0]

\* float() of a text without surrounding spaces
ParseStripped(t) ==
    LET dots == {i \in 1..Len(t) : t[i] = "."}
        p == IF dots = {} THEN Len(t) + 1 ELSE CHOOSE i \in dots : TRUE
        digs == [i \in 1..(Len(t) - Cardinality(dots)) |->
                    IF i < p THEN t[i] ELSE t[i + 1]]
        ok == /\ Cardinality(dots) <= 1
              /\ \A i \in 1..Len(t) : t[i] \in Digits \cup {"."}
              /\ Len(t) - Cardinality(dots) >= 1
    IN  IF ok
        THEN [exc |-> "none", val |-> Canon(IntOf(digs), Len(t) + 1 - p - Cardinality(dots))]
        ELSE [exc |-> "ValueError", val |-> Zero]

\* float(s): [exc |-> "ValueError"] when s is no decimal numeral
ParseFloat(s) == ParseStripped(Strip(s))

RECURSIVE NatDigits(_)
NatDigits(n) ==
    IF n < 10 THEN <<DigitChar(n)>>
    ELSE Append(NatDigits(n \div 10), DigitChar(n % 10))

\* n written with exactly k digits (leading zeros)
RECURSIVE PadDigits(_, _)
PadDigits(n, k) ==
    IF k = 0 THEN <<>>
    ELSE Append(PadDigits(n \div 10, k - 1), DigitChar(n % 10))

\* str(x) of a non-negative float in the range Python prints positionally
FloatStr(x) ==
    IF x.k = 0 THEN NatDigits(x.m) \o <<".", "0">>
    ELSE NatDigits(x.m \div Pow10(x.k)) \o <<".">> \o PadDigits(x.m % Pow10(x.k), x.k)

-----------------------------------------------------------------------------
(* clean_currency (App.py 60-69)                                           *)

\* the literal of line 64: three characters, none of them the rupee sign
Line64Literal == <<"U+00E2", "U+201A", "U+00B9">>
RupeeSign == "U+20B9"

\* lines 63-65: the text handed to float()
CleanText(value) ==
    LET v1 == Strip(value)
        v2 == Replace(v1, Line64Literal, <<>>)
        v3 == Replace(v2, <<"R", "s", ".">>, <<>>)
        v4 == Replace(v3, <<"R", "s">>, <<>>)
    IN  Strip(Replace(v4, <<",">>, <<>>))

\* lines 66-69: the try/except catches ValueError only
CurrencyResult(r) ==
    IF r.exc = "none" THEN [raised |-> FALSE, val |-> r.val]
    ELSE IF r.exc = "ValueError" THEN [raised |-> FALSE, val |-> Zero]
    ELSE [raised |-> TRUE, val |-> Zero]

\* [raised, val]
clean_currency(value) == CurrencyResult(ParseFloat(CleanText(value)))

-----------------------------------------------------------------------------
(* merge_address (App.py 29-44)                                            *)

AddressCols == <<"Ship To Address Line 1", "Ship To Address Line 2",
                 "Ship To Address Line 3", "Ship To City", "Ship To State",
                 "Ship To ZIP Code">>

\* A cell of a data frame row: text, NaN (an empty CSV cell), an integer, or no
\* such column.
TextCell(s) == [k |-> "str", s |-> s]
NaNCell == [k |-> "nan", s |-> <<>>]
NoCell == [k |-> "absent", s |-> <<>>]
IntCell(v) == [k |-> "int", s |-> NatDigits(v), v |-> v]

\* str(order_row.get(col, ''))
CellStr(cell) ==
    CASE cell.k = "str" -> cell.s
      [] cell.k = "int" -> cell.s
      [] cell.k = "nan" -> <<"nan">>
      [] cell.k = "absent" -> <<>>

\* line 42
KeepPart(val) == val # <<>> /\ val # <<"nan">> /\ Strip(val) # <<>>

\* ', '.join(parts)
RECURSIVE Join(_)
Join(parts) ==
    IF parts = <<>> THEN <<>>
    ELSE IF Len(parts) = 1 THEN parts[1]
    ELSE parts[1] \o <<",", " ">> \o Join(Tail(parts))

RECURSIVE AddressParts(_, _)
AddressParts(order_row, i) ==
    IF i > Len(AddressCols) THEN <<>>
    ELSE LET val == CellStr(order_row[AddressCols[i]])
         IN  (IF KeepPart(val) THEN <<Strip(val)>> ELSE <<>>)
                 \o AddressParts(order_row, i + 1)

\* a mutant: the kept value is appended untrimmed
merge_address_untrimmed(order_row) ==
    LET RECURSIVE parts(_)
        parts(i) ==
            IF i > Len(AddressCols) THEN <<>>
            ELSE LET val == CellStr(order_row[AddressCols[i]])
                 IN  (IF KeepPart(val) THEN <<val>> ELSE <<>>) \o parts(i + 1)
    IN  Join(parts(1))

merge_address(order_row) == Join(AddressParts(order_row, 1))

-----------------------------------------------------------------------------
(* number_to_words (App.py 71-109)                                         *)
(* The float n is [whole, fnum, fden]: the value whole + fnum / fden with  *)
(* 0 <= fnum < fden.                                                       *)

\* round(a / b), Python 3: to nearest, a tie to the even neighbour
RoundHalfEven(a, b) ==
    LET q == a \div b
        r == a % b
    IN  IF 2 * r < b THEN q
        ELSE IF 2 * r > b THEN q + 1
        ELSE IF q % 2 = 0 THEN q ELSE q + 1

\* lines 78-80; index d + 1 holds entry d, and "" is the empty text
units == <<<<>>, <<"One">>, <<"Two">>, <<"Three">>, <<"Four">>, <<"Five">>,
           <<"Six">>, <<"Seven">>, <<"Eight">>, <<"Nine">>>>
teens == <<<<>>, <<"Eleven">>, <<"Twelve">>, <<"Thirteen">>, <<"Fourteen">>,
           <<"Fifteen">>, <<"Sixteen">>, <<"Seventeen">>, <<"Eighteen">>,
           <<"Nineteen">>>>
tens == <<<<>>, <<"Ten">>, <<"Twenty">>, <<"Thirty">>, <<"Forty">>, <<"Fifty">>,
          <<"Sixty">>, <<"Seventy">>, <<"Eighty">>, <<"Ninety">>>>

\* lines 82-91
RECURSIVE convert_to_words(_)
convert_to_words(num) ==
    IF num = 0 THEN <<>>
    ELSE IF num < 10 THEN units[num + 1]
    ELSE IF num = 10 THEN tens[2]
    ELSE IF num < 20 THEN teens[num - 10 + 1]
    ELSE IF num < 100 THEN tens[(num \div 10) + 1] \o <<" ">> \o units[(num % 10) + 1]
    ELSE IF num < 1000
        THEN units[(num \div 100) + 1] \o <<" ", "Hundred", " ">>
                 \o convert_to_words(num % 100)
    ELSE IF num < 100000
        THEN convert_to_words(num \div 1000) \o <<" ", "Thousand", " ">>
                 \o convert_to_words(num % 1000)
    ELSE IF num < 10000000
        THEN convert_to_words(num \div 100000) \o <<" ", "Lakh", " ">>
                 \o convert_to_words(num % 100000)
    ELSE convert_to_words(num \div 10000000) \o <<" ", "Crore", " ">>
             \o convert_to_words(num % 10000000)

\* lines 75-76
RupeesOf(n) == n.whole
PaiseOf(n) == RoundHalfEven(n.fnum * 100, n.fden)

\* lines 96-100
RupeesClause(rupees_words) ==
    IF rupees_words # <<>>
    THEN <<"Rupees", " ">> \o Strip(rupees_words)
    ELSE <<"Rupees", " ", "Zero">>

\* lines 102-103
PaiseClause(paise_words) ==
    IF paise_words # <<>>
    THEN <<" ", "and", " ">> \o Strip(paise_words) \o <<" ", "Paise">>
    ELSE <<>>

\* lines 93-105, for given rupees and paise
WordsResult(rupees, paise) ==
    Replace(RupeesClause(Strip(convert_to_words(rupees)))
                \o PaiseClause(Strip(convert_to_words(paise))),
            <<" ", " ">>, <<" ">>)
        \o <<" ", "Only">>

\* a mutant: line 105 without the replace of doubled spaces
number_to_words_no_collapse(n) ==
    RupeesClause(Strip(convert_to_words(RupeesOf(n))))
        \o PaiseClause(Strip(convert_to_words(PaiseOf(n))))
        \o <<" ", "Only">>

number_to_words(n) == WordsResult(RupeesOf(n), PaiseOf(n))

-----------------------------------------------------------------------------
(* Values of the variables a specification does not use.                   *)

AppIdle ==
    /\ invoice_df = None /\ orders_df = None /\ invoice_ids = <<>>
    /\ pdf_bytes = None /\ pdf_filename = <<>>
    /\ invoice_file = None /\ orders_file = None /\ selected_invoice_id = None
    /\ bill_from_data = <<>> /\ bill_to_data = <<>> /\ auth_sig_name = <<>>
    /\ outcome = "none" /\ download = FALSE

FnIdle == fn = "none" /\ arg = None /\ ret = None

BuildIdle ==
    /\ sub_inv = <<>> /\ orders = <<>> /\ pc = "idle"
    /\ total_amount = 0 /\ total_cgst = 0 /\ total_sgst = 0 /\ grand_total = 0
    /\ total_qty = 0 /\ serial_number = 0 /\ vals = <<>> /\ inv_orders = <<>>
    /\ annexure = <<>> /\ exc = "none"

CanvasIdle ==
    /\ lpc = "idle" /\ y = 0 /\ pages = <<>> /\ is_annexure_page = FALSE
    /\ signature_font_available = FALSE /\ bill_to_lines = 0 /\ words_lines = 0
    /\ rows_drawn = 0 /\ annex_drawn = 0 /\ final_y_start = 0 /\ remarks = None

Pending == [done |-> FALSE]
Returned(v) == [done |-> TRUE, val |-> v]

-----------------------------------------------------------------------------
(* Calls of the helper functions on bounded inputs.                        *)

MaxNameLen == 3
NameChars == {"/", "\\", "<", ">", ":", "\"", "|", "?", "*", "A", "_", "."}

InitFilename ==
    /\ fn = "sanitize_filename" /\ arg \in SeqsUpTo(NameChars, MaxNameLen)
    /\ ret = Pending
    /\ AppIdle /\ BuildIdle /\ CanvasIdle

CallSanitizeFilename ==
    /\ fn = "sanitize_filename" /\ ret = Pending
    /\ ret' = Returned(sanitize_filename(arg))
    /\ UNCHANGED <<fn, arg, app_vars, build_vars, canvas_vars>>

SpecFilename == InitFilename /\ [][CallSanitizeFilename]_vars

MaxCurLen == 4
CurChars == {"0", "1", ".", ",", "R", "s", " ", RupeeSign}

\* every short text over CurChars, and texts that hold the literal of line 64
CurInputs ==
    SeqsUpTo(CurChars, MaxCurLen)
        \cup {Line64Literal \o <<"1">>, Line64Literal \o <<"1", ",", "0", "0", "0">>,
              <<"R", "s", ".", " ", "1", ",", "0", "1", ".", "1">>}

InitCurrency ==
    /\ fn = "clean_currency" /\ arg \in CurInputs /\ ret = Pending
    /\ AppIdle /\ BuildIdle /\ CanvasIdle

CallCleanCurrency ==
    /\ fn = "clean_currency" /\ ret = Pending
    /\ ret' = Returned(clean_currency(arg))
    /\ UNCHANGED <<fn, arg, app_vars, build_vars, canvas_vars>>

SpecCurrency == InitCurrency /\ [][CallCleanCurrency]_vars

AddressColSet == {AddressCols[i] : i \in 1..Len(AddressCols)}

AddressCells ==
    {NaNCell, NoCell, TextCell(<<" ">>), TextCell(<<"City">>), TextCell(<<"State">>),
     TextCell(<<" ", "Road", " ", "9", " ">>)}

InitAddress ==
    /\ fn = "merge_address" /\ arg \in [AddressColSet -> AddressCells]
    /\ ret = Pending
    /\ AppIdle /\ BuildIdle /\ CanvasIdle

CallMergeAddress ==
    /\ fn = "merge_address" /\ ret = Pending
    /\ ret' = Returned(merge_address(arg))
    /\ UNCHANGED <<fn, arg, app_vars, build_vars, canvas_vars>>

SpecAddress == InitAddress /\ [][CallMergeAddress]_vars

\* the fractional part is given in units of 10^-FracDigits rupee
FracDigits == 3
PaiseStep == Pow10(FracDigits - 2)
TwoDigit == {0, 1, 10, 11, 19, 20, 21, 99}
WordWholes ==
    {cr * 10000000 + lk * 100000 + th * 1000 + h * 100 + r :
        cr \in {0, 1, 20, 100}, lk \in {0, 1, 20}, th \in {0, 1, 12, 20},
        h \in {0, 1, 9}, r \in TwoDigit}
\* fractions that are no tie between two paise values
WordFracs == {p * PaiseStep + d : p \in {0, 1, 50, 99}, d \in {0, 4, PaiseStep - 4}}

InitWords ==
    /\ fn = "number_to_words"
    /\ arg \in [whole : WordWholes, fnum : WordFracs, fden : {Pow10(FracDigits)}]
    /\ ret = Pending
    /\ AppIdle /\ BuildIdle /\ CanvasIdle

CallNumberToWords ==
    /\ fn = "number_to_words" /\ ret = Pending
    /\ ret' = Returned(number_to_words(arg))
    /\ UNCHANGED <<fn, arg, app_vars, build_vars, canvas_vars>>

SpecWords == InitWords /\ [][CallNumberToWords]_vars

-----------------------------------------------------------------------------
(* Properties of the helper functions.                                     *)

NoSpace(a) == a # " "
\* the words of a text, its spaces dropped
WordsOf(s) == SelectSeq(s, NoSpace)
\* words separated by exactly one space, no space at either end
SingleSpaced(s) ==
    /\ Len(s) % 2 = 1
    /\ \A i \in 1..Len(s) : (s[i] = " ") <=> (i % 2 = 0)

\* the Indian-system reading of a number below 100, 1000, and of any number
ReadBelow100(n) ==
    IF n = 0 THEN <<>>
    ELSE IF n < 10 THEN units[n + 1]
    ELSE IF n = 10 THEN <<"Ten">>
    ELSE IF n < 20 THEN teens[n - 9]
    ELSE tens[(n \div 10) + 1] \o units[(n % 10) + 1]
ReadBelow1000(n) ==
    (IF n >= 100 THEN units[(n \div 100) + 1] \o <<"Hundred">> ELSE <<>>)
        \o ReadBelow100(n % 100)
RECURSIVE IndianReading(_)
IndianReading(n) ==
    IF n < 1000 THEN ReadBelow1000(n)
    ELSE LET cr == n \div 10000000
             lk == (n % 10000000) \div 100000
             th == (n % 100000) \div 1000
         IN  (IF cr > 0 THEN IndianReading(cr) \o <<"Crore">> ELSE <<>>)
                 \o (IF lk > 0 THEN ReadBelow100(lk) \o <<"Lakh">> ELSE <<>>)
                 \o (IF th > 0 THEN ReadBelow100(th) \o <<"Thousand">> ELSE <<>>)
                 \o ReadBelow1000(n % 1000)

\* the amount of arg rounded to paise, as a count of paise past the whole
\* rupees: 0..100, the 100 of a fraction that rounds up not carried (see C13)
ClaimPaise(n) == (2 * n.fnum * 100 + n.fden) \div (2 * n.fden)

WordsExample(whole, fnum, expected) ==
    (arg.whole = whole /\ arg.fnum = fnum) => ret.val = expected

ClaimSkipped(cell) ==
    \/ cell.k \in {"nan", "absent"}
    \/ cell.s = <<"nan">>
    \/ \A i \in 1..Len(cell.s) : cell.s[i] = " "

\* the kept fragments of columns 1..i, trimmed and joined, built from the right
RECURSIVE ClaimAddress(_, _)
ClaimAddress(row, i) ==
    IF i = 0 THEN <<>>
    ELSE LET before == ClaimAddress(row, i - 1)
             cell == row[AddressCols[i]]
         IN  IF ClaimSkipped(cell) THEN before
             ELSE IF before = <<>> THEN Strip(cell.s)
             ELSE before \o <<",", " ">> \o Strip(cell.s)

OnlyCityAndState(row) ==
    \A c \in AddressColSet :
        row[c] = (CASE c = "Ship To City" -> TextCell(<<"City">>)
                    [] c = "Ship To State" -> TextCell(<<"State">>)
                    [] OTHER -> NaNCell)

\* C6: merge_address returns the fragments of the six address fields that are
\* not missing, empty, whitespace-only or the missing-value placeholder, each
\* trimmed, in the fixed order, joined by ", " with no separator for a skipped
\* field; a record with only City and State set gives exactly "City, State".
C6_MergeAddress ==
    (fn = "merge_address" /\ ret.done) =>
        /\ ret.val = ClaimAddress(arg, Len(AddressCols))
        /\ OnlyCityAndState(arg) => ret.val = <<"City", ",", " ", "State">>

\* a row whose first and last fields need trimming and whose middle is skipped
C6_Witness ==
    /\ fn = "merge_address" /\ ret.done
    /\ arg["Ship To Address Line 1"] = TextCell(<<" ", "Road", " ", "9", " ">>)
    /\ arg["Ship To Address Line 2"] = NaNCell
    /\ arg["Ship To Address Line 3"] = TextCell(<<" ">>)
    /\ arg["Ship To City"] = NoCell
    /\ arg["Ship To State"] = TextCell(<<"State">>)
    /\ arg["Ship To ZIP Code"] = TextCell(<<" ", "Road", " ", "9", " ">>)
    /\ ret.val = <<"Road", " ", "9", ",", " ", "State", ",", " ", "Road", " ", "9">>

\* what the claim says is removed: the rupee symbol, "Rs."/"Rs" and commas
ClaimCleanText(value) ==
    LET v2 == Replace(Strip(value), <<RupeeSign>>, <<>>)
        v3 == Replace(v2, <<"R", "s", ".">>, <<>>)
        v4 == Replace(v3, <<"R", "s">>, <<>>)
    IN  Strip(Replace(v4, <<",">>, <<>>))

\* C7 (as claimed): clean_currency never raises; it returns the decimal parsed
\* after removing the rupee symbol, "Rs."/"Rs" and commas, and exactly 0.0 when
\* that text is no decimal; and it is idempotent on clean decimal strings.
C7_CleanCurrencyAsClaimed ==
    (fn = "clean_currency" /\ ret.done) =>
        LET parsed == ParseFloat(ClaimCleanText(arg))
        IN  /\ ~ret.val.raised
            /\ ret.val.val = (IF parsed.exc = "none" THEN parsed.val ELSE Zero)
            /\ clean_currency(FloatStr(ret.val.val)).val = ret.val.val

ForbiddenChars == {"/", "\\", "<", ">", ":", "\"", "|", "?", "*"}

\* C8: the output of sanitize_filename holds none of / \ < > : " | ? * and
\* has every other character of the input unchanged, at its place.
C8_Sanitized ==
    (fn = "sanitize_filename" /\ ret.done) =>
        /\ Len(ret.val) = Len(arg)
        /\ \A i \in 1..Len(arg) :
               /\ ret.val[i] \notin ForbiddenChars
               /\ arg[i] \notin ForbiddenChars => ret.val[i] = arg[i]

C8_Witness ==
    /\ fn = "sanitize_filename" /\ ret.done
    /\ arg = <<":", "A", "/">> /\ ret.val = <<"_", "A", "_">>

-----------------------------------------------------------------------------
(* The line-item loop (App.py 392-428).                                    *)
(* Amounts are integers in units of 1 / AmountUnit rupee; a GST rate is in *)
(* units of 1 / RateUnit percent.  The item costs of this model have at    *)
(* most two decimals and its GST rates at most one, so every amount below  *)
(* is exact.                                                               *)

RateUnit == Pow10(1)
AmountUnit == Pow10(2) * RateUnit * 200

\* a parsed decimal with at most d decimals, in units of 10^-d
Scaled(x, d) == x.m * Pow10(d - x.k)

\* int(cell), line 400
PyInt(cell) ==
    CASE cell.k = "int" -> [exc |-> "none", v |-> cell.v]
      [] cell.k = "str" /\ cell.s # <<>> /\ (\A i \in 1..Len(cell.s) : cell.s[i] \in Digits)
            -> [exc |-> "none", v |-> IntOf(cell.s)]
      [] OTHER -> [exc |-> "ValueError", v |-> 0]

NoLine(e) ==
    [exc |-> e, qty |-> 0, item_cost |-> 0, rate |-> [num |-> 0, den |-> 1],
     gst_rate |-> 0, cgst_amt |-> 0, sgst_amt |-> 0, total |-> 0]

\* lines 401 and 403-404: the two floats of a row
ItemCostOf(row) ==
    Scaled(clean_currency(CellStr(row.cost)).val, 2) * (AmountUnit \div 100)
GstRateOf(row) == ParseFloat(Strip(Replace(CellStr(row.gst), <<"%">>, <<>>)))

\* lines 405-407, for a parsed quantity q, item cost, unit rate and GST rate
Figures(qty, item_cost, rate, gst_rate) ==
    [exc |-> "none", qty |-> qty, item_cost |-> item_cost, rate |-> rate,
     gst_rate |-> gst_rate,
     \* item_cost * gst_rate / 100 / 2
     cgst_amt |-> (item_cost \div (AmountUnit \div 100)) * gst_rate,
     sgst_amt |-> (item_cost \div (AmountUnit \div 100)) * gst_rate,
     total |-> item_cost + 2 * ((item_cost \div (AmountUnit \div 100)) * gst_rate)]

\* a mutant: line 402 without its test of qty
LineFigures_no_zero_guard(q, item_cost, g) ==
    IF q.exc # "none" THEN NoLine(q.exc)
    ELSE IF q.v = 0 THEN NoLine("ZeroDivisionError")
    ELSE IF g.exc # "none" THEN NoLine(g.exc)
    ELSE Figures(q.v, item_cost, [num |-> item_cost, den |-> q.v], Scaled(g.val, 1))

\* lines 400-407 in the order they run: q is int(row['Quantity']), g is
\* float(gst_rate_str); line 402 gives the fraction item_cost / qty, or 0
LineFigures(q, item_cost, g) ==
    IF q.exc # "none" THEN NoLine(q.exc)
    ELSE IF g.exc # "none" THEN NoLine(g.exc)
    ELSE Figures(q.v, item_cost,
                 IF q.v # 0 THEN [num |-> item_cost, den |-> q.v]
                 ELSE [num |-> 0, den |-> 1],
                 Scaled(g.val, 1))

\* lines 400-407: one row's figures, or the exception a step raises
ComputeLine(row) == LineFigures(PyInt(row.qty), ItemCostOf(row), GstRateOf(row))

ZeroTotals ==
    [total_amount |-> 0, total_cgst |-> 0, total_sgst |-> 0, grand_total |-> 0,
     total_qty |-> 0]

\* a mutant: line 412 adds the line's cost and CGST only
Accumulate_without_sgst(t, line) ==
    [total_amount |-> t.total_amount + line.item_cost,
     total_cgst |-> t.total_cgst + line.cgst_amt,
     total_sgst |-> t.total_sgst + line.sgst_amt,
     grand_total |-> t.grand_total + line.item_cost + line.cgst_amt,
     total_qty |-> t.total_qty + line.qty]

\* lines 409-413
Accumulate(t, line) ==
    [total_amount |-> t.total_amount + line.item_cost,
     total_cgst |-> t.total_cgst + line.cgst_amt,
     total_sgst |-> t.total_sgst + line.sgst_amt,
     grand_total |-> t.grand_total + line.total,
     total_qty |-> t.total_qty + line.qty]

-----------------------------------------------------------------------------
(* The annexure loop (App.py 468-505).                                     *)

\* the length in characters of an atom of address text
AtomLen(a) ==
    CASE a \in {" ", ","} \cup Digits -> 1
      [] a \in {"71", "O1", "O2", "O3", "O9"} -> 2
      [] a \in {"Opp", "not", "nan"} -> 3
      [] a \in {"Road", "City"} -> 4
      [] a \in {"Mitra", "Surat", "State", "found"} -> 5
      [] a \in {"Mandal", "Jalram", "Temple"} -> 6
      [] a \in {"Brahmin", "Society", "Gujarat", "GUJARAT", "Address"} -> 7
      [] a = "AHMEDABAD" -> 9
      [] a = "Ellisbridge" -> 11

\* the chunks textwrap splits a text into: runs of spaces and runs of non-spaces
RECURSIVE Chunks(_, _)
Chunks(s, cur) ==
    IF s = <<>> THEN (IF cur = <<>> THEN <<>> ELSE <<cur>>)
    ELSE IF cur = <<>> \/ ((cur[1] = " ") <=> (s[1] = " "))
         THEN Chunks(Tail(s), Append(cur, s[1]))
         ELSE <<cur>> \o Chunks(s, <<>>)

RECURSIVE TextLen(_)
TextLen(s) == IF s = <<>> THEN 0 ELSE AtomLen(s[1]) + TextLen(Tail(s))

\* textwrap's greedy fill with drop_whitespace=False; every chunk of this
\* model's addresses is shorter than a line, so no word is broken
RECURSIVE FillLines(_, _, _)
FillLines(chunks, cur, width) ==
    IF chunks = <<>> THEN (IF cur = <<>> THEN <<>> ELSE <<cur>>)
    ELSE IF TextLen(cur) + TextLen(chunks[1]) <= width \/ cur = <<>>
         THEN FillLines(Tail(chunks), cur \o chunks[1], width)
         ELSE <<cur>> \o FillLines(chunks, <<>>, width)

\* textwrap.wrap(addr, width, replace_whitespace=False, drop_whitespace=False)
Wrap(addr, width) == FillLines(Chunks(addr, <<>>), <<>>, width)

\* lines 481-487: pdf.w is 210 and both margins are 10 on FPDF's default page;
\* int(address_width_mm / (9 * 0.35 * 0.7)) is int(address_width_mm / 2.205)
chars_per_line ==
    LET address_width_mm == 210 - 10 - 10 - 35 - 45
    IN  (address_width_mm * 1000) \div 2205

\* pandas' Series.unique(): the distinct values in order of first appearance
RECURSIVE Unique(_)
Unique(s) ==
    IF s = <<>> THEN <<>>
    ELSE LET rest == Unique(SubSeq(s, 1, Len(s) - 1))
             last == s[Len(s)]
         IN  IF \E i \in 1..Len(rest) : rest[i] = last THEN rest ELSE Append(rest, last)

\* a mutant: line 469 without .unique()
InvOrders_not_unique(sub) == [i \in 1..Len(sub) |-> sub[i].order]

\* line 469
InvOrders(sub) == Unique([i \in 1..Len(sub) |-> sub[i].order])

\* lines 473-478
AddressOfMatch(order_match) ==
    IF order_match = <<>> THEN <<"Address", " ", "not", " ", "found">>
    ELSE merge_address(order_match[1].address)

AddressOf(oid, odf) == AddressOfMatch(SelectSeq(odf, LAMBDA r : r.order = oid))

\* lines 489-505: the rows one order adds to the annexure table
GroupRows(oid, sel, lines) ==
    [i \in 1..Len(lines) |->
        IF i = 1
        THEN [order |-> CellStr(oid), invoice |-> CellStr(sel), address |-> lines[1]]
        ELSE [order |-> <<>>, invoice |-> <<>>, address |-> lines[i]]]

\* lines 490-491
AtLeastOneLine(wrapped) == IF wrapped = <<>> THEN <<<<>>>> ELSE wrapped

AnnexureGroup(oid, sel, odf) ==
    GroupRows(oid, sel, AtLeastOneLine(Wrap(AddressOf(oid, odf), chars_per_line)))

-----------------------------------------------------------------------------
(* One document build, a step per loop iteration (App.py 367-512).         *)

InvoiceLine(order, qty, cost, gst) ==
    [order |-> TextCell(<<order>>), qty |-> qty, cost |-> TextCell(cost),
     gst |-> TextCell(gst)]

\* the line items a build may hold: the two lines of the specification's
\* example, a line with quantity 0, costs written with "Rs." and with commas,
\* an unparsable cost, an unparsable GST rate and a missing quantity
LineCatalog ==
    {InvoiceLine("O1", IntCell(2), <<"2", "0", "0">>, <<"1", "8", "%">>),
     InvoiceLine("O2", IntCell(1), <<"1", "0", "0">>, <<"5">>),
     InvoiceLine("O1", IntCell(0), <<"R", "s", ".", "5", "0">>, <<"1", "2", "%">>),
     InvoiceLine("O9", IntCell(3), <<"1", ",", "0", "0", ".", "5", "0">>, <<"2", ".", "5", "%">>),
     InvoiceLine("O3", IntCell(1), <<"a", "b", "c">>, <<" ", "5", "%">>),
     InvoiceLine("O2", IntCell(1), <<"1", "0", "0">>, <<"x">>),
     InvoiceLine("O3", NaNCell, <<"1", "0">>, <<"5">>)}

OrderRow(order, l1, l2, l3, city, state, zip) ==
    [order |-> TextCell(<<order>>),
     address |-> [c \in AddressColSet |->
        CASE c = "Ship To Address Line 1" -> l1
          [] c = "Ship To Address Line 2" -> l2
          [] c = "Ship To Address Line 3" -> l3
          [] c = "Ship To City" -> city
          [] c = "Ship To State" -> state
          [] c = "Ship To ZIP Code" -> zip]]

\* an orders data frame: O1 with a short address, O2 twice (the first with an
\* address of 90 characters), O3 with no address field set, and no row for O9
OrdersTable ==
    <<OrderRow("O1", NaNCell, NaNCell, NaNCell, TextCell(<<"Surat">>),
               TextCell(<<"Gujarat">>), NaNCell),
      OrderRow("O2",
               TextCell(<<"71", " ", "Brahmin", " ", "Mitra", " ", "Mandal", " ", "Society">>),
               TextCell(<<"Opp", " ", "Jalram", " ", "Temple", " ", "Ellisbridge">>),
               NaNCell, TextCell(<<"AHMEDABAD">>), TextCell(<<"GUJARAT">>),
               IntCell(380006)),
      OrderRow("O2", NaNCell, NaNCell, NaNCell, TextCell(<<"Surat">>), NaNCell, NaNCell),
      OrderRow("O3", NaNCell, NaNCell, NaNCell, NaNCell, NaNCell, NaNCell)>>

MaxLines == 3
BuildInvoiceId == TextCell(<<"I", "N", "V", "/", "1">>)

InitBuild ==
    /\ sub_inv \in SeqsUpTo(LineCatalog, MaxLines) \ {<<>>}
    /\ orders = OrdersTable
    /\ pc = "lines" /\ exc = "none"
    /\ total_amount = 0 /\ total_cgst = 0 /\ total_sgst = 0 /\ grand_total = 0
    /\ total_qty = 0 /\ serial_number = 1
    /\ vals = <<>> /\ inv_orders = <<>> /\ annexure = <<>>
    /\ invoice_df = None /\ orders_df = None /\ invoice_ids = <<>>
    /\ pdf_bytes = None /\ pdf_filename = <<>>
    /\ invoice_file = None /\ orders_file = None
    /\ selected_invoice_id = BuildInvoiceId
    /\ bill_from_data = <<>> /\ bill_to_data = <<>> /\ auth_sig_name = <<>>
    /\ outcome = "none" /\ download = FALSE
    /\ FnIdle /\ CanvasIdle

Totals ==
    [total_amount |-> total_amount, total_cgst |-> total_cgst,
     total_sgst |-> total_sgst, grand_total |-> grand_total, total_qty |-> total_qty]

SetTotals(t) ==
    /\ total_amount' = t.total_amount /\ total_cgst' = t.total_cgst
    /\ total_sgst' = t.total_sgst /\ grand_total' = t.grand_total
    /\ total_qty' = t.total_qty

\* lines 409-428, or the exception leaving the loop
LineDone(line) ==
    IF line.exc # "none"
    THEN /\ pc' = "raised" /\ exc' = line.exc
         /\ UNCHANGED <<total_amount, total_cgst, total_sgst, grand_total,
                        total_qty, serial_number, vals>>
    ELSE /\ SetTotals(Accumulate(Totals, line))
         /\ vals' = Append(vals, line)
         /\ serial_number' = serial_number + 1
         /\ UNCHANGED <<pc, exc>>

\* one iteration of the loop of line 399
ProcessLine ==
    /\ pc = "lines" /\ serial_number <= Len(sub_inv)
    /\ LineDone(ComputeLine(sub_inv[serial_number]))
    /\ UNCHANGED <<sub_inv, orders, inv_orders, annexure, app_vars, fn_vars, canvas_vars>>

\* lines 430-469: the loop has ended; totals row, summary, remarks, annexure head
StartAnnexure ==
    /\ pc = "lines" /\ serial_number > Len(sub_inv)
    /\ pc' = "annexure"
    /\ inv_orders' = InvOrders(sub_inv)
    /\ UNCHANGED <<sub_inv, orders, total_amount, total_cgst, total_sgst, grand_total,
                   total_qty, serial_number, vals, annexure, exc,
                   app_vars, fn_vars, canvas_vars>>

\* one iteration of the loop of line 472
AnnexureOrder ==
    /\ pc = "annexure" /\ inv_orders # <<>>
    /\ annexure' = annexure \o AnnexureGroup(Head(inv_orders), selected_invoice_id, orders)
    /\ inv_orders' = Tail(inv_orders)
    /\ UNCHANGED <<sub_inv, orders, pc, total_amount, total_cgst, total_sgst,
                   grand_total, total_qty, serial_number, vals, exc,
                   app_vars, fn_vars, canvas_vars>>

\* line 512: the loop of line 472 has ended
FinishBuild ==
    /\ pc = "annexure" /\ inv_orders = <<>>
    /\ pc' = "done"
    /\ UNCHANGED <<sub_inv, orders, total_amount, total_cgst, total_sgst, grand_total,
                   total_qty, serial_number, vals, inv_orders, annexure, exc,
                   app_vars, fn_vars, canvas_vars>>

NextBuild == ProcessLine \/ StartAnnexure \/ AnnexureOrder \/ FinishBuild

SpecBuild == InitBuild /\ [][NextBuild]_vars

-----------------------------------------------------------------------------
(* Properties of the build loops.                                          *)

ExampleLine1 == InvoiceLine("O1", IntCell(2), <<"2", "0", "0">>, <<"1", "8", "%">>)
ExampleLine2 == InvoiceLine("O2", IntCell(1), <<"1", "0", "0">>, <<"5">>)
\* rupees and paise as an amount
Amount(rupees, paise) == (rupees * 100 + paise) * (AmountUnit \div 100)

\* C2: after every processed line the running aggregates satisfy
\* grand_total = total_amount + total_cgst + total_sgst and
\* total_cgst = total_sgst, on unrounded values; for the example lines
\* (2, 200, 18%) and (1, 100, 5%) the final aggregates are 300.00, 20.50, 20.50
\* and 341.00.
C2_RunningTotals ==
    (pc # "idle") =>
        /\ grand_total = total_amount + total_cgst + total_sgst
        /\ total_cgst = total_sgst
        /\ (sub_inv = <<ExampleLine1, ExampleLine2>> /\ serial_number = 3) =>
               /\ total_amount = Amount(300, 0)
               /\ total_cgst = Amount(20, 50)
               /\ total_sgst = Amount(20, 50)
               /\ grand_total = Amount(341, 0)

C2_Witness ==
    /\ pc = "done" /\ sub_inv = <<ExampleLine1, ExampleLine2>>
    /\ serial_number = 3 /\ grand_total = Amount(341, 0)

GstParses(row) == GstRateOf(row).exc = "none"

\* C3: every computed row with Quantity >= 0, item cost C and GST rate R has
\* CGST = SGST = C * R / 200, line total = C + CGST + SGST, unit rate = C /
\* Quantity when Quantity > 0 and 0 when Quantity = 0; a Quantity of 0 raises
\* nothing, so the build is aborted only by a quantity or a GST rate that does
\* not parse.
C3_LineFigures ==
    (pc # "idle") =>
        /\ \A i \in 1..Len(vals) :
               LET v == vals[i]
               IN  v.qty >= 0 =>
                       /\ v.cgst_amt = v.sgst_amt
                       /\ v.item_cost % (200 * RateUnit) = 0
                       /\ v.cgst_amt = (v.item_cost \div (200 * RateUnit)) * v.gst_rate
                       /\ v.total = v.item_cost + v.cgst_amt + v.sgst_amt
                       /\ (v.qty > 0) => (v.rate = [num |-> v.item_cost, den |-> v.qty])
                       /\ (v.qty = 0) => (v.rate.num = 0 /\ v.rate.den = 1)
        /\ Len(vals) = serial_number - 1
        /\ (pc = "raised") =>
               LET row == sub_inv[serial_number]
               IN  PyInt(row.qty).exc # "none" \/ ~GstParses(row)

\* a build that has computed a line of quantity 0 and gone on to the end
C3_Witness ==
    /\ pc = "done" /\ Len(vals) = 3
    /\ vals[1].qty = 2 /\ vals[1].rate = [num |-> Amount(200, 0), den |-> 2]
    /\ vals[2].qty = 0 /\ vals[2].rate.num = 0 /\ vals[2].item_cost = Amount(50, 0)
    /\ vals[2].cgst_amt = Amount(3, 0)

\* the distinct values of s in order of first occurrence
RECURSIVE FirstOccurrences(_, _)
FirstOccurrences(s, seen) ==
    IF s = <<>> THEN <<>>
    ELSE IF s[1] \in seen THEN FirstOccurrences(Tail(s), seen)
    ELSE <<s[1]>> \o FirstOccurrences(Tail(s), seen \cup {s[1]})

HasOrder(r) == r.order # <<>>

\* C5: the annexure holds exactly one row-group per distinct Order ID of the
\* invoice's lines, in order of first occurrence; the first row of a group
\* carries the Order ID and the Invoice ID, and its continuation rows (the
\* further lines of the wrapped address) leave both cells blank.
C5_AnnexureGroups ==
    (pc = "done") =>
        LET heads == SelectSeq(annexure, HasOrder)
        IN  /\ [i \in 1..Len(heads) |-> heads[i].order] =
                   FirstOccurrences([i \in 1..Len(sub_inv) |-> CellStr(sub_inv[i].order)], {})
            /\ annexure # <<>> /\ HasOrder(annexure[1])
            /\ \A i \in 1..Len(annexure) :
                   IF HasOrder(annexure[i])
                   THEN annexure[i].invoice = CellStr(selected_invoice_id)
                   ELSE annexure[i].invoice = <<>>

\* an invoice that names order O1 twice and order O2, whose address wraps
C5_Witness ==
    /\ pc = "done" /\ Len(sub_inv) = 3
    /\ sub_inv[1].order = sub_inv[3].order /\ sub_inv[2].order # sub_inv[1].order
    /\ Len(annexure) = 3
    /\ annexure[1].order = <<"O1">> /\ annexure[2].order = <<"O2">>
    /\ annexure[3].order = <<>> /\ annexure[3].address # <<>>

-----------------------------------------------------------------------------
(* The canvas of one build: vertical position and pages (PDFInvoice, an    *)
(* FPDF).  Lengths are in mm.  The canvas c is [y, pages]; a page records  *)
(* the part of the build that started it and whether the header and the    *)
(* footer callback rendered anything on it.                                *)

\* A4 height less the bottom margin of line 375: FPDF breaks the page before a
\* cell that would end below this
PageBreakTrigger == 297 - 15
\* FPDF's default top margin
TopMargin == 10

\* lines 153-183: where header() leaves the position, for a Bill To text of
\* bill_to_lines rendered lines
HeaderBottom == 15 + 15 + 5 + 4 * bill_to_lines + 4

\* a mutant: header() without the test of lines 140-141
header_unconditional(c, flag) ==
    [y |-> HeaderBottom,
     pages |-> [c.pages EXCEPT ![Len(c.pages)].header = TRUE]]

\* lines 139-183
header(c, flag) ==
    IF flag THEN c
    ELSE [y |-> HeaderBottom,
          pages |-> [c.pages EXCEPT ![Len(c.pages)].header = TRUE]]

\* lines 185-188
footer(c) ==
    [y |-> 297 - 15,
     pages |-> [c.pages EXCEPT ![Len(c.pages)].footer = TRUE]]

\* FPDF.add_page: the footer of the page that ends, a new page, its header;
\* flag is is_annexure_page as the callbacks read it
add_page(c, flag, part) ==
    LET ended == IF c.pages # <<>> THEN footer(c) ELSE c
        fresh == [y |-> TopMargin,
                  pages |-> Append(ended.pages,
                               [part |-> part, header |-> FALSE, footer |-> FALSE])]
    IN  header(fresh, flag)

\* FPDF's automatic page break before a cell of height h
BeforeCell(c, h, flag, part) ==
    IF c.y + h > PageBreakTrigger THEN add_page(c, flag, part) ELSE c

Ln(c, h) == [c EXCEPT !.y = c.y + h]
SetY(c, v) == [c EXCEPT !.y = v]

\* a cell of height h followed by a line feed of height l
CellLn(c, h, l, flag, part) == Ln(BeforeCell(c, h, flag, part), l)

Canvas == [y |-> y, pages |-> pages]

\* lines 376-389: first page, invoice number row, table header
FirstPage(c, flag) ==
    LET c1 == add_page(c, flag, "invoice")
        c2 == CellLn(c1, 6, 10, flag, "invoice")
    IN  CellLn(c2, 7, 7, flag, "invoice")

\* lines 431-446: totals row, then draw_totals_summary (lines 212-244)
TotalsBlock(c, flag) ==
    LET c1 == CellLn(c, 7, 7, flag, "invoice")
        c2 == Ln(c1, 2)
        c3 == CellLn(c2, 6, 6, flag, "invoice")
        c4 == CellLn(c3, 6, 6, flag, "invoice")
        c5 == CellLn(c4, 6, 6, flag, "invoice")
    IN  CellLn(c5, 8, 10, flag, "invoice")

RECURSIVE MultiCell(_, _, _, _, _)
MultiCell(c, h, n, flag, part) ==
    IF n = 0 THEN c ELSE MultiCell(CellLn(c, h, h, flag, part), h, n - 1, flag, part)

Place(c) == [page |-> Len(c.pages), y |-> c.y]

\* draw_final_remarks, lines 246-282: the canvas after it, and where each part
\* of the block was drawn
FinalRemarks(c, flag, font, nwords) ==
    LET start == c.y                                        \* line 249
        a1 == BeforeCell(c, 5, flag, "invoice")             \* line 253
        a2 == MultiCell(Ln(a1, 5), 5, nwords, flag, "invoice")  \* line 255
        a3 == SetY(a2, start)                               \* line 258
        brk == a3.y > 240                                   \* line 262
        a4 == IF brk THEN SetY(add_page(a3, flag, "invoice"), start) ELSE a3
        b1 == BeforeCell(a4, 5, flag, "invoice")            \* line 267
        b2 == Ln(b1, 10)                                    \* line 268
        s1 == IF font THEN BeforeCell(b2, 8, flag, "invoice") ELSE b2   \* line 273
        s2 == IF font THEN Ln(s1, 5) ELSE Ln(b2, 10)        \* lines 274, 277
        n1 == BeforeCell(s2, 5, flag, "invoice")            \* line 282
    IN  [canvas |-> n1,
         log |-> [final_y_start |-> start, entry_page |-> Len(c.pages),
                  manual_break |-> brk,
                  words |-> Place(a1), for_line |-> Place(b1),
                  name_line |-> Place(n1)]]

\* lines 456-466: annexure title and table header
AnnexureHead(c, flag) ==
    LET c1 == add_page(c, flag, "annexure")
        c2 == Ln(CellLn(c1, 10, 10, flag, "annexure"), 8)
    IN  CellLn(c2, 8, 8, flag, "annexure")

MaxTableRows == 40
MaxAnnexRows == 37
BillToLineChoices == {4, 5}
WordsLineChoices == {1, 2}

InitLayout ==
    /\ lpc = "start" /\ y = 0 /\ pages = <<>>
    /\ is_annexure_page = FALSE                       \* line 117
    /\ signature_font_available \in BOOLEAN           \* lines 124-137
    /\ bill_to_lines \in BillToLineChoices
    /\ words_lines \in WordsLineChoices
    /\ rows_drawn = 0 /\ annex_drawn = 0 /\ final_y_start = 0 /\ remarks = None
    /\ AppIdle /\ FnIdle /\ BuildIdle

LayoutFirstPage ==
    /\ lpc = "start"
    /\ LET c == FirstPage(Canvas, is_annexure_page)
       IN  y' = c.y /\ pages' = c.pages
    /\ lpc' = "table"
    /\ UNCHANGED <<is_annexure_page, signature_font_available, bill_to_lines,
                   words_lines, rows_drawn, annex_drawn, final_y_start, remarks,
                   app_vars, fn_vars, build_vars>>

\* draw_invoice_table_row, lines 200-210
LayoutTableRow ==
    /\ lpc = "table" /\ rows_drawn < MaxTableRows
    /\ LET c == CellLn(Canvas, 6, 6, is_annexure_page, "invoice")
       IN  y' = c.y /\ pages' = c.pages
    /\ rows_drawn' = rows_drawn + 1
    /\ UNCHANGED <<lpc, is_annexure_page, signature_font_available, bill_to_lines,
                   words_lines, annex_drawn, final_y_start, remarks,
                   app_vars, fn_vars, build_vars>>

LayoutTotals ==
    /\ lpc = "table" /\ rows_drawn >= 1
    /\ LET c == TotalsBlock(Canvas, is_annexure_page)
       IN  y' = c.y /\ pages' = c.pages
    /\ lpc' = "remarks"
    /\ UNCHANGED <<is_annexure_page, signature_font_available, bill_to_lines,
                   words_lines, rows_drawn, annex_drawn, final_y_start, remarks,
                   app_vars, fn_vars, build_vars>>

LayoutRemarks ==
    /\ lpc = "remarks"
    /\ LET r == FinalRemarks(Canvas, is_annexure_page, signature_font_available,
                             words_lines)
       IN  /\ y' = r.canvas.y /\ pages' = r.canvas.pages
           /\ final_y_start' = r.log.final_y_start
           /\ remarks' = r.log
    /\ lpc' = "annexure_start"
    /\ UNCHANGED <<is_annexure_page, signature_font_available, bill_to_lines,
                   words_lines, rows_drawn, annex_drawn,
                   app_vars, fn_vars, build_vars>>

\* lines 453-466
LayoutAnnexureStart ==
    /\ lpc = "annexure_start"
    /\ is_annexure_page' = TRUE
    /\ LET c == AnnexureHead(Canvas, TRUE)
       IN  y' = c.y /\ pages' = c.pages
    /\ lpc' = "annexure"
    /\ UNCHANGED <<signature_font_available, bill_to_lines, words_lines, rows_drawn,
                   annex_drawn, final_y_start, remarks, app_vars, fn_vars, build_vars>>

\* one row of the annexure table, lines 494-505
LayoutAnnexureRow ==
    /\ lpc = "annexure" /\ annex_drawn < MaxAnnexRows
    /\ LET c == CellLn(Canvas, 7, 7, is_annexure_page, "annexure")
       IN  y' = c.y /\ pages' = c.pages
    /\ annex_drawn' = annex_drawn + 1
    /\ UNCHANGED <<lpc, is_annexure_page, signature_font_available, bill_to_lines,
                   words_lines, rows_drawn, final_y_start, remarks,
                   app_vars, fn_vars, build_vars>>

\* line 512: output() closes the document, which renders the last footer
LayoutOutput ==
    /\ lpc = "annexure" /\ annex_drawn >= 1
    /\ LET c == footer(Canvas)
       IN  y' = c.y /\ pages' = c.pages
    /\ lpc' = "done"
    /\ UNCHANGED <<is_annexure_page, signature_font_available, bill_to_lines,
                   words_lines, rows_drawn, annex_drawn, final_y_start, remarks,
                   app_vars, fn_vars, build_vars>>

NextLayout ==
    \/ LayoutFirstPage \/ LayoutTableRow \/ LayoutTotals \/ LayoutRemarks
    \/ LayoutAnnexureStart \/ LayoutAnnexureRow \/ LayoutOutput

SpecLayout == InitLayout /\ [][NextLayout]_vars

-----------------------------------------------------------------------------
(* Properties of the page layout.                                          *)

\* C9 (as claimed): every annexure page, the one started when the annexure
\* begins and every one an automatic page break adds among its rows, is
\* rendered with neither the standard header nor the standard footer, and every
\* page started before the annexure gets both.
C9_AsClaimed ==
    (lpc = "done") =>
        \A i \in 1..Len(pages) :
            IF pages[i].part = "annexure"
            THEN ~pages[i].header /\ ~pages[i].footer
            ELSE pages[i].header /\ pages[i].footer

\* C9 (amended): every annexure page is rendered without the standard header
\* and with the standard footer (the page number line), and every page started
\* before the annexure gets both.
C9_HeaderOnlySuppressed ==
    (lpc = "done") =>
        \A i \in 1..Len(pages) :
            /\ pages[i].footer
            /\ pages[i].header <=> (pages[i].part # "annexure")

\* a document whose item table and whose annexure table both broke the page
C9_Witness ==
    /\ lpc = "done" /\ Len(pages) >= 4
    /\ pages[2].part = "invoice" /\ pages[2].header
    /\ pages[Len(pages) - 1].part = "annexure" /\ pages[Len(pages)].part = "annexure"
    /\ ~pages[Len(pages)].header /\ pages[Len(pages)].footer

-----------------------------------------------------------------------------
(* The Streamlit script (App.py 289-533).  Every event reruns the whole    *)
(* script with the widget values of that run; an action is one such run.   *)

\* the placeholder option of lines 295 and 314
Dashes == TextCell(<<"-", "-", "-">>)

DEFAULT_BILL_FROM == <<"KAMALA-E-RETAIL", ",", "\n", "SURAT", " ", "GUJARAT">>
DEFAULT_BILL_TO == <<"COCOBLU", " ", "RETAIL", " ", "LIMITED", ",", "\n", "AHMEDABAD">>
DEFAULT_AUTH_SIGNATORY == <<"Authorized", " ", "Signatory">>

WithInvoice(inv, line) ==
    [inv |-> inv, order |-> line.order, qty |-> line.qty, cost |-> line.cost,
     gst |-> line.gst]

InvText1 == TextCell(<<"I", "N", "V", "/", "1">>)
InvText2 == TextCell(<<"I", "N", "V", ":", "2">>)

\* What pd.read_csv returns for each file a user may upload: a data frame (a
\* sequence of rows) or an exception.  "inv_text" has text invoice IDs, one of
\* them on a line whose GST rate does not parse, and a row with an empty
\* Invoice ID cell; "inv_num" has a numeric Invoice ID column.
ReadCsv(file) ==
    CASE file = "inv_text" ->
            [exc |-> "none",
             df |-> <<WithInvoice(InvText1, ExampleLine1),
                      WithInvoice(InvText2,
                          InvoiceLine("O2", IntCell(1), <<"1", "0", "0">>, <<"x">>)),
                      WithInvoice(InvText1, ExampleLine2),
                      WithInvoice(NaNCell, ExampleLine2)>>]
      [] file = "inv_num" ->
            [exc |-> "none",
             df |-> <<WithInvoice(IntCell(1001), ExampleLine1),
                      WithInvoice(IntCell(0), ExampleLine2),
                      WithInvoice(IntCell(1001), ExampleLine2)>>]
      [] file = "ord_ok" -> [exc |-> "none", df |-> OrdersTable]
      [] OTHER -> [exc |-> "ParserError", df |-> <<>>]

InvoiceFiles == {"inv_text", "inv_num", "inv_bad"}
OrdersFiles == {"ord_ok", "ord_bad"}
NoFile == "no file"

\* lines 306-314
LoadInvoice(file, df, ids) ==
    IF file = NoFile THEN [df |-> df, ids |-> ids]
    ELSE LET r == ReadCsv(file)
         IN  IF r.exc = "none"
             THEN [df |-> r.df, ids |-> Unique([i \in 1..Len(r.df) |-> r.df[i].inv])]
             ELSE [df |-> None, ids |-> <<Dashes>>]

\* lines 317-323
LoadOrders(file, df) ==
    IF file = NoFile THEN df
    ELSE LET r == ReadCsv(file)
         IN  IF r.exc = "none" THEN r.df ELSE None

\* lines 328-332: the select box keeps its value while its options are the
\* same, and shows option 0 when they change
SelectBox(options, old_options, value) ==
    IF options = old_options THEN value
    ELSE IF options = <<>> THEN None
    ELSE options[1]

\* Python's truth value of a cell, and ==
Truthy(cell) ==
    CASE cell = None -> FALSE
      [] cell.k = "str" -> cell.s # <<>>
      [] cell.k = "int" -> cell.v # 0
      [] OTHER -> TRUE
PyEq(a, b) == a.k # "nan" /\ b.k # "nan" /\ a = b

\* lines 399-428 as a whole: the figures of every line, or the first exception
RECURSIVE RunLines(_, _, _, _)
AfterLine(sub, i, t, rows, line) ==
    IF line.exc # "none" THEN [exc |-> line.exc, totals |-> t, vals |-> rows]
    ELSE RunLines(sub, i + 1, Accumulate(t, line), Append(rows, line))
RunLines(sub, i, t, rows) ==
    IF i > Len(sub) THEN [exc |-> "none", totals |-> t, vals |-> rows]
    ELSE AfterLine(sub, i, t, rows, ComputeLine(sub[i]))

\* lines 472-505 as a whole
RECURSIVE RunAnnexure(_, _, _)
RunAnnexure(oids, sel, odf) ==
    IF oids = <<>> THEN <<>>
    ELSE AnnexureGroup(oids[1], sel, odf) \o RunAnnexure(Tail(oids), sel, odf)

\* line 449: grand_total as the float number_to_words receives
AsFloat(amount) ==
    [whole |-> amount \div AmountUnit, fnum |-> amount % AmountUnit, fden |-> AmountUnit]

\* lines 372-512: the document of one build, or the exception that ended it
DocumentOf(lines, sub, odf, sel) ==
    IF lines.exc # "none" THEN [exc |-> lines.exc, doc |-> None]
    ELSE [exc |-> "none",
          doc |-> [invoice |-> sel, vals |-> lines.vals, totals |-> lines.totals,
                   words |-> number_to_words(AsFloat(lines.totals.grand_total)),
                   annexure |-> RunAnnexure(InvOrders(sub), sel, odf)]]

BuildDocument(sub, odf, sel) ==
    DocumentOf(RunLines(sub, 1, ZeroTotals, <<>>), sub, odf, sel)

\* lines 515-516: the file name, or the exception of calling str methods on a
\* value that is no str
DeriveFilename(sel) ==
    IF sel.k = "str"
    THEN [exc |-> "none",
          name |-> <<"Invoice_Annexure_">> \o sanitize_filename(sel.s) \o <<".pdf">>]
    ELSE [exc |-> "AttributeError", name |-> <<>>]

\* lines 367-523, once the checks of lines 354-359 have passed: sub is the
\* filtered subset, built the document or exception of the build, named the
\* file name or exception of lines 515-516
Generated(sub, built, named, old_filename) ==
    IF sub = <<>>
    THEN [outcome |-> "error_no_data", pdf_bytes |-> None, pdf_filename |-> old_filename]
    ELSE IF built.exc # "none"
    THEN [outcome |-> "exception", pdf_bytes |-> None, pdf_filename |-> old_filename]
    ELSE IF named.exc # "none"
    THEN [outcome |-> "exception", pdf_bytes |-> built.doc, pdf_filename |-> old_filename]
    ELSE [outcome |-> "success", pdf_bytes |-> built.doc, pdf_filename |-> named.name]

\* line 367
Subset(idf, sel) == SelectSeq(idf, LAMBDA r : PyEq(r.inv, sel))

\* lines 350-523: the handler of the generate button, from the session state
\* and widget values of this run; what it shows and what it leaves stored
Generate(idf, odf, sel, bill_from, bill_to, sig, old_filename) ==
    IF idf = None \/ odf = None
    THEN [outcome |-> "error_upload", pdf_bytes |-> None, pdf_filename |-> old_filename]
    ELSE IF sel = Dashes \/ ~Truthy(sel)
    THEN [outcome |-> "error_select", pdf_bytes |-> None, pdf_filename |-> old_filename]
    ELSE IF bill_from = <<>> \/ bill_to = <<>> \/ sig = <<>>
    THEN [outcome |-> "error_fields", pdf_bytes |-> None, pdf_filename |-> old_filename]
    ELSE Generated(Subset(idf, sel), BuildDocument(Subset(idf, sel), odf, sel),
                   DeriveFilename(sel), old_filename)

\* lines 526-533 and the end of the run: what the run leaves in the session
\* state, and the download button shown when pdf_bytes is set
EndRun(inv_file, ord_file, inv, odf, sel, bill_from, bill_to, sig, gen) ==
    /\ invoice_file' = inv_file /\ orders_file' = ord_file
    /\ invoice_df' = inv.df /\ invoice_ids' = inv.ids /\ orders_df' = odf
    /\ selected_invoice_id' = sel
    /\ bill_from_data' = bill_from /\ bill_to_data' = bill_to
    /\ auth_sig_name' = sig
    /\ outcome' = gen.outcome
    /\ pdf_bytes' = gen.pdf_bytes /\ pdf_filename' = gen.pdf_filename
    /\ download' = (gen.pdf_bytes # None)
    /\ UNCHANGED <<fn_vars, build_vars, canvas_vars>>

\* lines 350-523, when the button was pressed in this run
Handle(inv_file, ord_file, inv, odf, sel, bill_from, bill_to, sig, button) ==
    EndRun(inv_file, ord_file, inv, odf, sel, bill_from, bill_to, sig,
           IF button
           THEN Generate(inv.df, odf, sel, bill_from, bill_to, sig, pdf_filename)
           ELSE [outcome |-> "none", pdf_bytes |-> pdf_bytes,
                 pdf_filename |-> pdf_filename])

\* lines 328-332, once the uploads are read
Settle(inv_file, ord_file, picked, inv, odf, bill_from, bill_to, sig, button) ==
    Handle(inv_file, ord_file, inv, odf, SelectBox(inv.ids, invoice_ids, picked),
           bill_from, bill_to, sig, button)

\* One run of the script: the uploads are read again, the select box settles,
\* the generate handler runs when the button was pressed, and the download
\* button is shown when pdf_bytes is set.
ScriptRun(inv_file, ord_file, picked, bill_from, bill_to, sig, button) ==
    Settle(inv_file, ord_file, picked,
           LoadInvoice(inv_file, invoice_df, invoice_ids),
           LoadOrders(ord_file, orders_df), bill_from, bill_to, sig, button)

Init ==
    /\ invoice_df = None /\ orders_df = None /\ invoice_ids = <<Dashes>>
    /\ pdf_bytes = None /\ pdf_filename = <<>>
    /\ invoice_file = NoFile /\ orders_file = NoFile
    /\ selected_invoice_id = Dashes
    /\ bill_from_data = DEFAULT_BILL_FROM /\ bill_to_data = DEFAULT_BILL_TO
    /\ auth_sig_name = DEFAULT_AUTH_SIGNATORY
    /\ outcome = "none" /\ download = FALSE
    /\ FnIdle /\ BuildIdle /\ CanvasIdle

UploadInvoice ==
    \E f \in InvoiceFiles \cup {NoFile} :
        /\ f # invoice_file
        /\ ScriptRun(f, orders_file, selected_invoice_id, bill_from_data,
                     bill_to_data, auth_sig_name, FALSE)

UploadOrders ==
    \E f \in OrdersFiles \cup {NoFile} :
        /\ f # orders_file
        /\ ScriptRun(invoice_file, f, selected_invoice_id, bill_from_data,
                     bill_to_data, auth_sig_name, FALSE)

SelectInvoice ==
    \E i \in 1..Len(invoice_ids) :
        /\ invoice_ids[i] # selected_invoice_id
        /\ ScriptRun(invoice_file, orders_file, invoice_ids[i], bill_from_data,
                     bill_to_data, auth_sig_name, FALSE)

EditDetails ==
    \E bf \in {<<>>, DEFAULT_BILL_FROM}, bt \in {<<>>, DEFAULT_BILL_TO},
       sig \in {<<>>, DEFAULT_AUTH_SIGNATORY} :
        /\ <<bf, bt, sig>> # <<bill_from_data, bill_to_data, auth_sig_name>>
        /\ ScriptRun(invoice_file, orders_file, selected_invoice_id, bf, bt, sig, FALSE)

PressGenerate ==
    ScriptRun(invoice_file, orders_file, selected_invoice_id, bill_from_data,
              bill_to_data, auth_sig_name, TRUE)

Next == UploadInvoice \/ UploadOrders \/ SelectInvoice \/ EditDetails \/ PressGenerate

Spec == Init /\ [][Next]_vars

-----------------------------------------------------------------------------
(* Properties of the generate request.                                     *)

FailedOutcomes ==
    {"error_upload", "error_select", "error_fields", "error_no_data", "exception"}

\* C1 (as claimed): a generate request that does not complete successfully,
\* because it fails validation (a dataset missing, the "---" or empty invoice
\* ID, a blank detail field, an empty filtered subset) or because a step of
\* the build raises, ends with pdf_bytes None and no download offered, also
\* after an earlier request had succeeded.
C1_AsClaimed ==
    (outcome \in FailedOutcomes) => (pdf_bytes = None /\ ~download)

-----------------------------------------------------------------------------
(* The company name (App.py 363-364).                                      *)

\* bill_from_data.split('\n')[0]
RECURSIVE FirstLine(_)
FirstLine(s) ==
    IF s = <<>> \/ s[1] = "\n" THEN <<>> ELSE <<s[1]>> \o FirstLine(Tail(s))

\* line 364: the name given to PDFInvoice, drawn by header() (line 156) and
\* in the 'For ...' line of draw_final_remarks (line 266)
company_name(bill_from) == Replace(Strip(FirstLine(bill_from)), <<",">>, <<>>)

MaxBillFromLen == 4
BillFromChars == {"A", ",", " ", "\n"}

InitCompany ==
    /\ fn = "company_name" /\ arg \in SeqsUpTo(BillFromChars, MaxBillFromLen)
    /\ ret = Pending
    /\ AppIdle /\ BuildIdle /\ CanvasIdle

CallCompanyName ==
    /\ fn = "company_name" /\ ret = Pending
    /\ ret' = Returned(company_name(arg))
    /\ UNCHANGED <<fn, arg, app_vars, build_vars, canvas_vars>>

SpecCompany == InitCompany /\ [][CallCompanyName]_vars

\* the first line without its surrounding spaces and without a trailing comma
WithoutTrailingComma(l) ==
    IF l # <<>> /\ l[Len(l)] = "," THEN SubSeq(l, 1, Len(l) - 1) ELSE l

\* C11 (as claimed): the company name is the first line of the Bill From
\* text with only its trailing comma removed; every other character of the
\* line, commas inside it included, is kept.
C11_AsClaimed ==
    (fn = "company_name" /\ ret.done) =>
        ret.val = WithoutTrailingComma(Strip(FirstLine(arg)))

-----------------------------------------------------------------------------
(* The stored document and its file name.                                  *)

\* 'Invoice_Annexure_' + sanitize_filename(ID) + '.pdf' for the text of an ID
ClaimedFilename(id) ==
    <<"Invoice_Annexure_">> \o sanitize_filename(CellStr(id)) \o <<".pdf">>

\* C12 (as claimed): whenever a download is offered, pdf_filename is the name
\* derived from the invoice ID of the build that produced the stored bytes;
\* bytes and file name are never from different generate requests.
C12_AsClaimed ==
    (download /\ pdf_bytes # None) =>
        pdf_filename = ClaimedFilename(pdf_bytes.invoice)

-----------------------------------------------------------------------------
(* The paise worded by number_to_words.                                    *)

\* C13 (as claimed): the paise worded lie in 0..99, and the rupees and paise
\* worded are those of the amount rounded to the nearest paisa: a fraction
\* that rounds up to 100 paise is carried into the rupees.
C13_AsClaimed ==
    (fn = "number_to_words" /\ ret.done) =>
        /\ PaiseOf(arg) \in 0..99
        /\ ret.val = WordsResult(arg.whole + ClaimPaise(arg) \div 100,
                                 ClaimPaise(arg) % 100)

=============================================================================
